---- MODULE Spec2Model ----
(***************************************************************************)
(* Model of yggdrasil_find_public_peers.py: the probe scheduler            *)
(* (ping_peers), the probe output parser (PeerStatistic.parse_ping_output) *)
(* and the selection engine (best_peers), as driven by                     *)
(* find_best_public_peers, and main with the configuration file.          *)
(*                                                                         *)
(* Text is modelled as a sequence of characters in which the three fixed   *)
(* literals of the regular expressions are single symbols:                 *)
(*   RttLiteral  = "rtt min/avg/max/mdev = "                               *)
(*   MsLiteral   = "ms"                                                    *)
(*   LossLiteral = "% packet loss"                                         *)
(* Floats are fixed-point integers with FracDigits decimal places.         *)
(***************************************************************************)
EXTENDS Integers, Sequences, FiniteSets, TLC

\* ----------------------------------------------------------------- bounds
MaxPeers == 3
MaxParallel == 2
MaxBest == 3
MaxCap == 2
FracDigits == 2

Countries == {"A", "B"}
FailStatuses == {1, 2}

\* ------------------------------------------------------------ text model
RttLiteral == "rtt min/avg/max/mdev = "
MsLiteral == "ms"
LossLiteral == "% packet loss"

Digits == {"0", "1", "2", "3", "4", "5", "6", "7", "8", "9"}
NumChars == Digits \cup {"."}
Spaces == {" ", "\n"}

DigitVal(c) ==
  CASE c = "0" -> 0 [] c = "1" -> 1 [] c = "2" -> 2 [] c = "3" -> 3
    [] c = "4" -> 4 [] c = "5" -> 5 [] c = "6" -> 6 [] c = "7" -> 7
    [] c = "8" -> 8 [] c = "9" -> 9

\* F applied to the value of x, with x evaluated once.
With(x, F(_)) == CHOOSE r \in { F(v) : v \in {x} } : TRUE

RECURSIVE Pow10(_)
Pow10(n) == IF n <= 0 THEN 1 ELSE 10 * Pow10(n - 1)

InRange(s, i) == i >= 1 /\ i <= Len(s)

HasAt(s, i, c) == InRange(s, i) /\ s[i] = c

\* Last index of the longest run of characters of S that starts at i
\* (i - 1 when s[i] is not in S): a greedy S* from position i.
RECURSIVE RunEnd(_, _, _)
RunEnd(s, i, S) ==
  IF i <= Len(s) /\ s[i] \in S THEN RunEnd(s, i + 1, S) ELSE i - 1

\* int(): the value of a string of decimal digits.
RECURSIVE IntOf(_)
IntOf(ds) ==
  IF ds = <<>> THEN 0
  ELSE 10 * IntOf(SubSeq(ds, 1, Len(ds) - 1)) + DigitVal(ds[Len(ds)])

\* The group (\d[\d.]+) tried at position i: the index of its last character,
\* 0 when it does not match. What follows the group in both uses ("/" and
\* \s*ms) is outside [\d.], so only the longest run can be followed by it.
NumGroupEnd(s, i) ==
  IF InRange(s, i) /\ s[i] \in Digits
  THEN LET e == RunEnd(s, i + 1, NumChars) IN IF e >= i + 1 THEN e ELSE 0
  ELSE 0

\* The pattern of line 105 tried with its literal at position i: the four
\* groups, or <<>> when there is no match there.
RttMatchAt(s, i) ==
  IF ~HasAt(s, i, RttLiteral) THEN <<>> ELSE
  With(NumGroupEnd(s, i + 1), LAMBDA e1 :
  IF e1 = 0 \/ ~HasAt(s, e1 + 1, "/") THEN <<>> ELSE
  With(NumGroupEnd(s, e1 + 2), LAMBDA e2 :
  IF e2 = 0 \/ ~HasAt(s, e2 + 1, "/") THEN <<>> ELSE
  With(NumGroupEnd(s, e2 + 2), LAMBDA e3 :
  IF e3 = 0 \/ ~HasAt(s, e3 + 1, "/") THEN <<>> ELSE
  With(NumGroupEnd(s, e3 + 2), LAMBDA e4 :
  IF e4 = 0 \/ ~HasAt(s, RunEnd(s, e4 + 1, Spaces) + 1, MsLiteral) THEN <<>> ELSE
  << SubSeq(s, i + 1, e1), SubSeq(s, e1 + 2, e2),
     SubSeq(s, e2 + 2, e3), SubSeq(s, e3 + 2, e4) >> ))))

\* re.search: the leftmost match.
RECURSIVE SearchRtt(_, _)
SearchRtt(s, i) ==
  IF i > Len(s) THEN <<>>
  ELSE With(RttMatchAt(s, i), LAMBDA m :
         IF m # <<>> THEN m ELSE SearchRtt(s, i + 1))

\* The pattern of line 106, (\d+)% packet loss, tried at position i: the
\* group, or <<>>.
LossMatchAt(s, i) ==
  IF InRange(s, i) /\ s[i] \in Digits
  THEN LET e == RunEnd(s, i, Digits) IN
       IF HasAt(s, e + 1, LossLiteral) THEN SubSeq(s, i, e) ELSE <<>>
  ELSE <<>>

RECURSIVE SearchLoss(_, _)
SearchLoss(s, i) ==
  IF i > Len(s) THEN <<>>
  ELSE With(LossMatchAt(s, i), LAMBDA m :
         IF m # <<>> THEN m ELSE SearchLoss(s, i + 1))

DotCount(g) == Cardinality({k \in 1..Len(g) : g[k] = "."})

\* float(g) for a g matched by \d[\d.]+ raises ValueError exactly when g
\* holds more than one ".".
FloatRaises(g) == DotCount(g) > 1

\* float(g), as a fixed-point integer with FracDigits decimal places.
FloatOf(g) ==
  LET dot == IF DotCount(g) = 0 THEN Len(g) + 1
             ELSE CHOOSE k \in 1..Len(g) : g[k] = "."
      ip == SubSeq(g, 1, dot - 1)
      fp == SubSeq(g, dot + 1, Len(g))
  IN IntOf(ip) * Pow10(FracDigits)
     + (IF Len(fp) <= FracDigits
        THEN IntOf(fp) * Pow10(FracDigits - Len(fp))
        ELSE IntOf(fp) \div Pow10(Len(fp) - FracDigits))

\* --------------------------------------------------------- the data model
\* PeerData (lines 67-76); url and world_part are passed through untouched
\* and are left out.
PeerData(address, country) == [address |-> address, country |-> country]

\* PeerStatistic(peer=p) with the dataclass defaults of lines 82-87.
PeerStatistic(p) ==
  [peer |-> p, packet_loss |-> -1, rtt_min |-> 0, rtt_avg |-> 0,
   rtt_max |-> 0, rtt_mdev |-> 0, error |-> 0]

\* PeerStatistic.__lt__
Lt(self, other) == self.rtt_avg < other.rtt_avg

\* PeerStatistic.ping_success
ping_success_sentinel(self) == self.error <= 0

ping_success(self) == self.error = 0

\* PeerStatistic.parse_ping_output: the record after the call, and whether
\* the call raised (ValueError out of float()). The four assignments run in
\* order, so a raise leaves the earlier ones done.
parse_ping_output(self, ping_output) ==
  With(SearchRtt(ping_output, 1), LAMBDA m_rtt :
  With(SearchLoss(ping_output, 1), LAMBDA m_loss :
  LET s1 == [self EXCEPT !.rtt_min = FloatOf(m_rtt[1])]
      s2 == [s1 EXCEPT !.rtt_avg = FloatOf(m_rtt[2])]
      s3 == [s2 EXCEPT !.rtt_max = FloatOf(m_rtt[3])]
      s4 == [s3 EXCEPT !.rtt_mdev = FloatOf(m_rtt[4])]
  IN IF m_rtt = <<>> \/ m_loss = <<>>
       THEN [stat |-> [self EXCEPT !.error = -1], raised |-> FALSE]
     ELSE IF FloatRaises(m_rtt[1]) THEN [stat |-> self, raised |-> TRUE]
     ELSE IF FloatRaises(m_rtt[2]) THEN [stat |-> s1, raised |-> TRUE]
     ELSE IF FloatRaises(m_rtt[3]) THEN [stat |-> s2, raised |-> TRUE]
     ELSE IF FloatRaises(m_rtt[4]) THEN [stat |-> s3, raised |-> TRUE]
     ELSE [stat |-> [s4 EXCEPT !.packet_loss = IntOf(m_loss)],
           raised |-> FALSE] ))

\* ------------------------------------------------------------- best_peers
\* The list xs[:n] of Python.
SliceInclusive(xs, n) == SubSeq(xs, 1, IF n + 1 < Len(xs) THEN n + 1 ELSE Len(xs))

Slice(xs, n) ==
  IF n >= 0 THEN SubSeq(xs, 1, IF n < Len(xs) THEN n ELSE Len(xs))
  ELSE SubSeq(xs, 1, IF Len(xs) + n > 0 THEN Len(xs) + n ELSE 0)

\* [ps for ps in ping_statistics if ps.ping_success()]
SuccessfulAll(xs) == xs

RECURSIVE Successful(_)
Successful(xs) ==
  IF xs = <<>> THEN <<>>
  ELSE IF ping_success(Head(xs)) THEN <<Head(xs)>> \o Successful(Tail(xs))
  ELSE Successful(Tail(xs))

\* x put into the sorted list xs behind every element it is not less than.
InsertBeforeEqual(sorted, x) ==
  With(sorted, LAMBDA xs :
  With(Cardinality({j \in 1..Len(xs) : Lt(xs[j], x)}), LAMBDA k :
  SubSeq(xs, 1, k) \o <<x>> \o SubSeq(xs, k + 1, Len(xs)) ))

InsertSorted(sorted, x) ==
  With(sorted, LAMBDA xs :
  With(Cardinality({j \in 1..Len(xs) : ~Lt(x, xs[j])}), LAMBDA k :
  SubSeq(xs, 1, k) \o <<x>> \o SubSeq(xs, k + 1, Len(xs)) ))

\* list.sort(): stable, ascending by __lt__.
RECURSIVE SortStable(_)
SortStable(xs) ==
  IF xs = <<>> THEN <<>>
  ELSE InsertSorted(SortStable(SubSeq(xs, 1, Len(xs) - 1)), xs[Len(xs)])

\* The test of line 375 on a country already counted.
LimitExceeded(count, max_from_country) == count > max_from_country

LimitReached(count, max_from_country) == count >= max_from_country

\* The test of line 382 that ends the walk.
EnoughSelected(n, best) == n >= best

\* The loop of lines 372-383 from position k on, with the dictionary
\* countries and the list selected so far.
RECURSIVE CountryWalk(_, _, _, _, _, _)
CountryWalk(sp, k, counts, selected, best, max_from_country) ==
  With(counts, LAMBDA countries :
  With(selected, LAMBDA lst :
  IF k > Len(sp) THEN lst
  ELSE LET country == sp[k].peer.country IN
       IF country \in DOMAIN countries
          /\ LimitReached(countries[country], max_from_country)
       THEN CountryWalk(sp, k + 1, countries, lst, best, max_from_country)
       ELSE LET c2 == IF country \in DOMAIN countries
                      THEN [countries EXCEPT ![country] = @ + 1]
                      ELSE countries @@ (country :> 1)
                l2 == Append(lst, sp[k])
            IN IF EnoughSelected(Len(l2), best) THEN l2
               ELSE CountryWalk(sp, k + 1, c2, l2, best, max_from_country) ))

\* best_peers: the PeerData of the selected statistics, best first.
best_peers(ping_statistics, best, max_from_country) ==
  With(SortStable(Successful(ping_statistics)), LAMBDA successful_peers :
  With(IF max_from_country <= 0 THEN Slice(successful_peers, best)
       ELSE CountryWalk(successful_peers, 1, <<>>, <<>>, best, max_from_country),
       LAMBDA best_peers_list :
  [k \in 1..Len(best_peers_list) |-> best_peers_list[k].peer] ))

\* ------------------------------------------------------------------ state
VARIABLES
  pc,                 \* where find_best_public_peers is
  peers,              \* its argument: the candidate list
  settings,           \* its argument; the scheduler reads parallel
  selection,          \* the best and max_from_country given to best_peers
  ping_statistic,     \* ping_peers: one PeerStatistic per candidate
  ping_waiting,       \* ping_peers: the statistics not yet launched
  processing,         \* ping_peers: the ProcessingPeer list
  processing_working, \* ping_peers: the list the last poll pass built
  procs,              \* the child processes, in the order they were started
  pbar,               \* ping_peers: the progress bar, or None
  result,             \* what find_best_public_peers returns
  conf_file           \* the file settings.yggdrasil_conf names

vars == << pc, peers, settings, selection, ping_statistic, ping_waiting, processing,
           processing_working, procs, pbar, result, conf_file >>

\* The configuration file: whether open(..., "r") with hjson.load succeeds,
\* whether it can be opened for writing, and its "Peers" list. NoConfFile
\* stands where no file is named or none is looked at.
NoConfFile == [readable |-> FALSE, writable |-> FALSE, Peers |-> <<>>]

\* The statistics objects are named by their position in ping_statistic and
\* the processes by their position in procs: ping_waiting holds the former,
\* a ProcessingPeer one of each.
ProcessingPeer(peer_stat, process) ==
  [peer_statistic |-> peer_stat, process |-> process]

\* subprocess.Popen: a running child. returncode and stdout mean something
\* once it has exited; until then poll() gives None.
Popen(peer_stat) ==
  [target |-> peer_stat, exited |-> FALSE, returncode |-> 0, stdout |-> <<>>]

\* list.pop(): the last item, and the list without it.
PopKeeps(xs) == [item |-> xs[Len(xs)], rest |-> xs]

PopFirst(xs) == [item |-> xs[1], rest |-> SubSeq(xs, 2, Len(xs))]

Pop(xs) == [item |-> xs[Len(xs)], rest |-> SubSeq(xs, 1, Len(xs) - 1)]

\* The test of line 300.
HasCapacityInclusive(n, parallel) == n <= parallel

HasCapacity(n, parallel) == n < parallel

\* Line 328: the exit status kept in the statistics.
ProbeFailedSentinel(stat, poll) == [stat EXCEPT !.error = -1]

ProbeFailed(stat, poll) == [stat EXCEPT !.error = poll]

\* Line 295: pbar is None unless the logger is at level INFO. The bar counts
\* n updates out of total.
PbarNone == [active |-> FALSE, total |-> 0, n |-> 0]

tqdm(total) == [active |-> TRUE, total |-> total, n |-> 0]

\* "if pbar": None is false, and a bar is true when its total is positive.
PbarTruthy(pb) == pb.active /\ pb.total > 0

\* pbar.update()
pbar_update_skipped(pb) == pb

pbar_update(pb) == [pb EXCEPT !.n = @ + 1]

\* Lines 329-330 and 336-337.
PbarStep(pb) == IF PbarTruthy(pb) THEN pbar_update(pb) ELSE pb

\* The test of line 298.
LoopRuns(waiting, active) == waiting # <<>> \/ active # <<>>

\* ------------------------------------------------------------ input sets
\* Numerals as ping prints them, and the shapes the pattern of line 105 also
\* lets through or turns down.
Num9_5 == <<"9", ".", "5">>
Num10 == <<"1", "0", ".", "0">>
Num30 == <<"3", "0", ".", "0">>
Num0_25 == <<"0", ".", "2", "5">>
NumTwoDots == <<"1", ".", "2", ".", "3">>

RttLine(a, b, c, d) ==
  <<RttLiteral>> \o a \o <<"/">> \o b \o <<"/">> \o c \o <<"/">> \o d
  \o <<" ", MsLiteral>>

LossLine(n) == <<"x", " ">> \o n \o <<LossLiteral, "x", "\n">>

\* What a probe that exits with status 0 may have printed.
PingOutputs ==
  { LossLine(<<"0">>) \o RttLine(Num9_5, Num10, Num30, Num0_25),
    LossLine(<<"2", "0">>) \o RttLine(Num10, Num30, Num30, Num0_25),
    LossLine(<<"0">>) \o RttLine(Num9_5, NumTwoDots, Num30, Num0_25),
    <<>> }

SeqsUpTo(S, n) == UNION { [1..k -> S] : k \in 0..n }

\* The candidate lists of the scheduler runs: up to MaxPeers peers, every
\* third one from country B (the selection runs below draw every mix).
CountryOf(i) == IF i % 3 = 0 THEN "B" ELSE "A"

PeerLists == { [i \in 1..m |-> PeerData(i, CountryOf(i))] : m \in 0..MaxPeers }

\* settings.parallel. settings.best_count and settings.max_from_country are
\* read at line 434 alone and are drawn there.
SettingsSet == [parallel : 0..MaxParallel]

SelectionSet == [best : 0..MaxBest, max_from_country : -1..MaxCap]

NotSelected == [best |-> 0, max_from_country |-> 0]

\* ---------------------------------------------------------------- actions
Init ==
  /\ pc = "call"
  /\ peers \in PeerLists
  /\ settings \in SettingsSet
  /\ selection = NotSelected
  /\ ping_statistic = <<>>
  /\ ping_waiting = <<>>
  /\ processing = <<>>
  /\ processing_working = <<>>
  /\ procs = <<>>
  /\ pbar = PbarNone
  /\ result = <<>>
  /\ conf_file = NoConfFile

\* find_best_public_peers, lines 429-431: nothing to test.
NoPeers ==
  /\ pc = "call"
  /\ peers = <<>>
  /\ result' = <<>>
  /\ pc' = "done"
  /\ UNCHANGED << peers, settings, selection, ping_statistic, ping_waiting, processing,
                  processing_working, procs, pbar,
                  conf_file >>

\* find_best_public_peers calls ping_peers, which runs lines 291-296.
PingPeersEnter ==
  /\ pc = "call"
  /\ peers # <<>>
  /\ ping_statistic' = [i \in 1..Len(peers) |-> PeerStatistic(peers[i])]
  /\ ping_waiting' = [i \in 1..Len(peers) |-> i]
  /\ \E info \in BOOLEAN :
       pbar' = IF info THEN tqdm(Len(peers)) ELSE PbarNone
  /\ processing' = <<>>
  /\ pc' = "loop"
  /\ UNCHANGED << peers, settings, selection, processing_working, procs, result,
                  conf_file >>

\* Lines 298-311: the loop test holds; start a probe if there is room and one
\* is waiting.
LaunchStep ==
  /\ pc = "loop"
  /\ LoopRuns(ping_waiting, processing)
  /\ IF HasCapacity(Len(processing), settings.parallel) /\ ping_waiting # <<>>
     THEN LET peer_stat == Pop(ping_waiting).item IN
          /\ ping_waiting' = Pop(ping_waiting).rest
          /\ procs' = Append(procs, Popen(peer_stat))
          /\ processing' =
               Append(processing, ProcessingPeer(peer_stat, Len(procs) + 1))
     ELSE UNCHANGED << ping_waiting, procs, processing >>
  /\ pc' = "poll"
  /\ UNCHANGED << peers, settings, selection, ping_statistic, processing_working,
                  pbar, result,
                  conf_file >>

\* The children that have not exited.
Running == { pid \in 1..Len(procs) : ~procs[pid].exited }

\* A running probe exits with a nonzero status.
ProcFail ==
  \E pid \in Running : \E st \in FailStatuses :
    /\ procs' = [procs EXCEPT ![pid].exited = TRUE, ![pid].returncode = st]
    /\ UNCHANGED << pc, peers, settings, selection, ping_statistic, ping_waiting,
                    processing, processing_working, pbar, result,
                  conf_file >>

\* A running probe exits with status 0, having printed one of outs.
ProcExit(outs) ==
  \E pid \in Running : \E o \in outs :
    /\ procs' = [procs EXCEPT ![pid].exited = TRUE, ![pid].returncode = 0,
                             ![pid].stdout = o]
    /\ UNCHANGED << pc, peers, settings, selection, ping_statistic, ping_waiting,
                    processing, processing_working, pbar, result,
                  conf_file >>

\* The for loop of lines 317-337 from entry k on. acc holds the statistics,
\* the list processing_working, the progress bar and whether
\* parse_ping_output raised, which ends the loop.
RECURSIVE PollLoop(_, _, _, _)
PollLoop(active, ps, k, sofar) ==
  With(sofar, LAMBDA acc :
  IF k > Len(active) \/ acc.raised THEN acc
  ELSE LET p == active[k]
           peer_stat == p.peer_statistic
           poll == ps[p.process].returncode
       IN PollLoop(active, ps, k + 1,
            IF ~ps[p.process].exited
              THEN [acc EXCEPT !.working = Append(@, p)]
            ELSE IF poll # 0
              THEN [acc EXCEPT !.stat[peer_stat] = ProbeFailed(@, poll),
                               !.pbar = PbarStep(@)]
            ELSE With(parse_ping_output(acc.stat[peer_stat], ps[p.process].stdout),
                      LAMBDA parsed :
                        [acc EXCEPT !.stat[peer_stat] = parsed.stat,
                                    !.raised = parsed.raised,
                                    !.pbar = IF parsed.raised THEN @
                                             ELSE PbarStep(@)])) )

\* Lines 313-339: sleep, then one pass over processing. An exception leaves
\* ping_peers, and find_best_public_peers, at once: line 339 is not reached.
PollPass ==
  /\ pc = "poll"
  /\ \E acc \in { PollLoop(processing, procs, 1,
                     [stat |-> ping_statistic, working |-> <<>>, pbar |-> pbar,
                      raised |-> FALSE]) } :
        /\ ping_statistic' = acc.stat
        /\ pbar' = acc.pbar
        /\ processing_working' = acc.working
        /\ processing' = IF acc.raised THEN processing ELSE acc.working
        /\ pc' = IF acc.raised THEN "raised" ELSE "loop"
  /\ UNCHANGED << peers, settings, selection, ping_waiting, procs, result,
                  conf_file >>

\* Lines 298, 341-344: the loop test fails, the bar is closed (its count
\* stays) and ping_peers returns ping_statistic.
PingPeersReturn ==
  /\ pc = "loop"
  /\ ~LoopRuns(ping_waiting, processing)
  /\ pc' = "returned"
  /\ UNCHANGED << peers, settings, selection, ping_statistic, ping_waiting, processing,
                  processing_working, procs, pbar, result,
                  conf_file >>

\* Line 344: what ping_peers returns.
PingPeersResultSuccessful == Successful(ping_statistic)

PingPeersResult == ping_statistic

\* find_best_public_peers, lines 434-436, with settings.best_count and
\* settings.max_from_country one of choices.
BestPeersWith(choices) ==
  /\ pc = "returned"
  /\ selection' \in choices
  /\ result' = best_peers(PingPeersResult, selection'.best,
                          selection'.max_from_country)
  /\ pc' = "done"
  /\ UNCHANGED << peers, settings, ping_statistic, ping_waiting, processing,
                  processing_working, procs, pbar,
                  conf_file >>

BestPeers == BestPeersWith(SelectionSet)

ProcOk == ProcExit(PingOutputs)

Next ==
  \/ NoPeers
  \/ PingPeersEnter
  \/ LaunchStep
  \/ ProcFail
  \/ ProcOk
  \/ PollPass
  \/ PingPeersReturn
  \/ BestPeers

Spec == Init /\ [][Next]_vars

\* Every launched probe exits in the end, and the control thread keeps
\* running.
FairSpec ==
  /\ Spec
  /\ WF_vars(PingPeersEnter)
  /\ WF_vars(LaunchStep)
  /\ WF_vars(PollPass)
  /\ WF_vars(PingPeersReturn)
  /\ WF_vars(ProcFail \/ ProcOk)

\* ------------------------------------- the probe command is not installed
\* The child of line 305 is the shell (shell=True), which starts even when
\* ping is missing and then exits with its status for a command it cannot
\* find; its message goes to /dev/null (line 304).
CommandNotFound == 127

ProcNotFound ==
  \E pid \in Running :
    /\ procs' = [procs EXCEPT ![pid].exited = TRUE,
                             ![pid].returncode = CommandNotFound]
    /\ UNCHANGED << pc, peers, settings, selection, ping_statistic, ping_waiting,
                    processing, processing_working, pbar, result,
                  conf_file >>

NextNoPing ==
  \/ NoPeers
  \/ PingPeersEnter
  \/ LaunchStep
  \/ ProcNotFound
  \/ PollPass
  \/ PingPeersReturn
  \/ BestPeers

SpecNoPing == Init /\ [][NextNoPing]_vars

\* ------------------------------------------------------------------- main
\* main, lines 560-596. validate_settings copies the arguments into the
\* Settings object field by field (lines 528-541), so settings stands for
\* both. An exception out of find_best_public_peers (pc = "raised") ends main
\* where it is.
MaxFetched == 1

MainSettings ==
  [parallel : {0, 1}, pings : {0, 1}, best_count : {-1, 1},
   max_from_country : {0}, force : BOOLEAN, rewrite_config_peers : BOOLEAN,
   yggdrasil_conf : {"", "yggdrasil.conf"}]

\* A peer the configuration file lists before the run, and the files the
\* run may find.
OldPeers == << PeerData(0, "A") >>

ConfFiles == [readable : BOOLEAN, writable : BOOLEAN, Peers : {<<>>, OldPeers}]

\* What get_all_public_peers may return.
FetchedPeerLists == { pl \in PeerLists : Len(pl) <= MaxFetched }

InitMain ==
  /\ pc = "main"
  /\ settings \in MainSettings
  /\ peers = <<>>
  /\ selection = NotSelected
  /\ ping_statistic = <<>>
  /\ ping_waiting = <<>>
  /\ processing = <<>>
  /\ processing_working = <<>>
  /\ procs = <<>>
  /\ pbar = PbarNone
  /\ result = <<>>
  /\ conf_file \in (IF settings.yggdrasil_conf = "" THEN {NoConfFile} ELSE ConfFiles)

\* os.access(settings.yggdrasil_conf, os.W_OK)
access_W_OK(f) == f.writable

\* yggdrasil_conf_has_peers: False when the file cannot be read and parsed.
yggdrasil_conf_has_several_peers(f) == f.readable /\ Len(f.Peers) > 1

yggdrasil_conf_has_peers(f) == f.readable /\ Len(f.Peers) > 0

\* Lines 564-565 with validate_settings, lines 543-549: the one test is
\* whether the configuration file can be written; sys.exit(1) if not.
ValidateSettings ==
  /\ pc = "main"
  /\ pc' = IF /\ settings.yggdrasil_conf # "" /\ ~settings.force
               /\ ~access_W_OK(conf_file)
            THEN "exit1" ELSE "validated"
  /\ UNCHANGED << peers, settings, selection, ping_statistic, ping_waiting,
                  processing, processing_working, procs, pbar, result,
                  conf_file >>

\* Lines 570-573: a configuration that has peers is left alone, sys.exit(0),
\* unless force or rewrite_config_peers is set.
CheckExistingConfig ==
  /\ pc = "validated"
  /\ pc' = IF /\ settings.yggdrasil_conf # ""
               /\ ~settings.rewrite_config_peers
               /\ yggdrasil_conf_has_peers(conf_file) /\ ~settings.force
            THEN "exit0" ELSE "fetch"
  /\ UNCHANGED << peers, settings, selection, ping_statistic, ping_waiting,
                  processing, processing_working, procs, pbar, result,
                  conf_file >>

\* Line 576, then the call of line 577.
GetAllPublicPeers ==
  /\ pc = "fetch"
  /\ peers' \in FetchedPeerLists
  /\ pc' = "call"
  /\ UNCHANGED << settings, selection, ping_statistic, ping_waiting,
                  processing, processing_working, procs, pbar, result,
                  conf_file >>

\* Line 434 with the settings of the run.
BestPeersOfSettings ==
  BestPeersWith({ [best |-> settings.best_count,
                   max_from_country |-> settings.max_from_country] })

\* Lines 579-590: no peers selected is sys.exit(1); with no file named the
\* run ends with sys.exit(0) at line 596; otherwise
\* save_to_yggdrasil_conf is called.
CheckSelection ==
  /\ pc = "done"
  /\ pc' = IF result = <<>> THEN "exit1"
            ELSE IF settings.yggdrasil_conf # "" THEN "save" ELSE "exit0"
  /\ UNCHANGED << peers, settings, selection, ping_statistic, ping_waiting,
                  processing, processing_working, procs, pbar, result, conf_file >>

\* save_to_yggdrasil_conf, lines 468-481, and lines 591-596: the file is
\* read, then written with the new list in "Peers"; if either open fails the
\* exception is raised again and main ends with sys.exit(1), the file as it
\* was.
SaveToYggdrasilConf ==
  /\ pc = "save"
  /\ IF conf_file.readable /\ conf_file.writable
     THEN /\ conf_file' = [conf_file EXCEPT !.Peers = result]
          /\ pc' = "exit0"
     ELSE /\ conf_file' = conf_file
          /\ pc' = "exit1"
  /\ UNCHANGED << peers, settings, selection, ping_statistic, ping_waiting,
                  processing, processing_working, procs, pbar, result >>

NextMain ==
  \/ ValidateSettings
  \/ CheckExistingConfig
  \/ GetAllPublicPeers
  \/ NoPeers
  \/ PingPeersEnter
  \/ LaunchStep
  \/ ProcFail
  \/ ProcOk
  \/ PollPass
  \/ PingPeersReturn
  \/ BestPeersOfSettings
  \/ CheckSelection
  \/ SaveToYggdrasilConf

SpecMain == InitMain /\ [][NextMain]_vars

\* ------------------------------------------------- the parser on its own
\* One candidate, probed with one of many outputs: every mix of the numerals
\* below in the summary line, with and without the loss fragment.
ParseNumerals ==
  { <<"5">>, Num10, Num0_25, NumTwoDots, <<".", "5">>, <<>> }

ParseLossParts ==
  { <<>>, LossLine(<<"0">>), LossLine(<<"1", "0", "0">>), <<"x", LossLiteral>> }

ParseTails == { <<" ", MsLiteral, "\n">>, <<MsLiteral>>, <<"\n">> }

ParseInputs ==
  { l \o <<RttLiteral>> \o a \o <<"/">> \o b \o <<"/">> \o c \o <<"/">> \o d \o t :
      l \in ParseLossParts, a \in ParseNumerals, b \in ParseNumerals,
      c \in ParseNumerals, d \in ParseNumerals, t \in ParseTails }
  \cup ParseLossParts

InitParse ==
  /\ pc = "call"
  /\ peers = << PeerData(1, "A") >>
  /\ settings = [parallel |-> 1]
  /\ selection = NotSelected
  /\ ping_statistic = <<>>
  /\ ping_waiting = <<>>
  /\ processing = <<>>
  /\ processing_working = <<>>
  /\ procs = <<>>
  /\ pbar = PbarNone
  /\ result = <<>>
  /\ conf_file = NoConfFile

ProcOkParse == ProcExit(ParseInputs)

NextParse ==
  \/ PingPeersEnter
  \/ LaunchStep
  \/ ProcOkParse
  \/ PollPass
  \/ PingPeersReturn

SpecParse == InitParse /\ [][NextParse]_vars

\* ---------------------------------------------- the selection on its own
\* ping_peers has returned some statistics: every mix, up to MaxPeers long,
\* of successes with one of three averages and failures of both kinds.
SelRtts == {1000, 3000, 5000}

SelStats(address) ==
  { [PeerStatistic(PeerData(address, c)) EXCEPT
       !.packet_loss = 0, !.rtt_min = r, !.rtt_avg = r, !.rtt_max = r] :
      c \in Countries, r \in SelRtts }
  \cup
  { [PeerStatistic(PeerData(address, c)) EXCEPT !.error = e] :
      c \in Countries, e \in {-1, 2} }

SelInputs ==
  UNION { { xs \in [1..m -> UNION { SelStats(a) : a \in 1..m }] :
              \A i \in 1..m : xs[i].peer.address = i } : m \in 0..MaxPeers }

InitSel ==
  /\ pc = "returned"
  /\ ping_statistic \in SelInputs
  /\ peers = [i \in 1..Len(ping_statistic) |-> ping_statistic[i].peer]
  /\ settings = [parallel |-> 1]
  /\ selection = NotSelected
  /\ ping_waiting = <<>>
  /\ processing = <<>>
  /\ processing_working = <<>>
  /\ procs = <<>>
  /\ pbar = PbarNone
  /\ result = <<>>
  /\ conf_file = NoConfFile

NextSel == BestPeers

SpecSel == InitSel /\ [][NextSel]_vars

\* ------------------------------------- the selection on reordered inputs
\* Statistics for the runs that compare best_peers on a list and on its
\* reorderings: successes with one of two averages from either country, and
\* failures of both kinds.
ReorderStats(address) ==
  { [PeerStatistic(PeerData(address, c)) EXCEPT
       !.packet_loss = 0, !.rtt_min = r, !.rtt_avg = r, !.rtt_max = r] :
      c \in Countries, r \in {1000, 3000} }
  \cup
  { [PeerStatistic(PeerData(address, "A")) EXCEPT !.error = e] : e \in {-1, 2} }

ReorderInputs ==
  UNION { { xs \in [1..m -> UNION { ReorderStats(a) : a \in 1..m }] :
              \A i \in 1..m : xs[i].peer.address = i } : m \in 0..MaxPeers }

InitReorder ==
  /\ pc = "returned"
  /\ ping_statistic \in ReorderInputs
  /\ peers = [i \in 1..Len(ping_statistic) |-> ping_statistic[i].peer]
  /\ settings = [parallel |-> 1]
  /\ selection = NotSelected
  /\ ping_waiting = <<>>
  /\ processing = <<>>
  /\ processing_working = <<>>
  /\ procs = <<>>
  /\ pbar = PbarNone
  /\ result = <<>>
  /\ conf_file = NoConfFile

SpecReorder == InitReorder /\ [][NextSel]_vars

\* ================================================================ claims
Range(f) == { f[k] : k \in DOMAIN f }

Min(a, b) == IF a < b THEN a ELSE b

\* The statistics whose probe is in flight.
InFlight == { processing[k].peer_statistic : k \in DOMAIN processing }

\* A step that is one poll pass (the probes' exits leave pc alone).
PollStep == pc = "poll" /\ pc' # "poll"

\* Entry k of processing belongs to a child that has exited.
ExitedAt(k) == procs[processing[k].process].exited

\* Polling entry k of processing raises.
RaisesAt(k) ==
  /\ ExitedAt(k)
  /\ procs[processing[k].process].returncode = 0
  /\ parse_ping_output(ping_statistic[processing[k].peer_statistic],
                       procs[processing[k].process].stdout).raised

\* The pass gets as far as polling entry k.
Reached(k) == \A j \in 1..(k - 1) : ~RaisesAt(j)

\* C1: with parallel >= 1, the number of probes in flight, len(processing),
\* is at most min(parallel, number of candidates) in every state.
C1_Ceiling ==
  settings.parallel >= 1 =>
    Len(processing) <= Min(settings.parallel, Len(peers))

\* The ceiling is reached while a candidate still waits.
C1_Witness ==
  /\ pc = "poll"
  /\ settings.parallel = 2
  /\ Len(peers) = 3
  /\ Len(processing) = 2
  /\ ping_waiting # <<>>

\* C2: when ping_peers returns, it returns one statistics record per
\* candidate, record i for candidate i, whatever the outcome of each probe.
C2_OneRecordPerCandidate ==
  pc = "returned" =>
    /\ Len(PingPeersResult) = Len(peers)
    /\ \A i \in 1..Len(peers) : PingPeersResult[i].peer = peers[i]

\* ping_peers returns three records: a success, a failed probe and an output
\* that did not parse.
C2_Witness ==
  /\ pc = "returned"
  /\ Len(peers) = 3
  /\ \E i, j, k \in 1..3 :
       /\ ping_statistic[i].error = 0 /\ ping_statistic[i].packet_loss >= 0
       /\ ping_statistic[j].error \in FailStatuses
       /\ ping_statistic[k].error = -1

\* C3: no statistics record is launched twice, no two entries of processing
\* refer to the same record, and when ping_peers returns every record has
\* been launched.
C3_LaunchedOnce ==
  /\ \A a, b \in 1..Len(procs) : procs[a].target = procs[b].target => a = b
  /\ \A j, k \in 1..Len(processing) :
       processing[j].peer_statistic = processing[k].peer_statistic => j = k
  /\ pc = "returned" =>
       \A i \in 1..Len(peers) : \E a \in 1..Len(procs) : procs[a].target = i

\* Two probes are in flight after a third has been reaped.
C3_Witness ==
  /\ Len(procs) = 3
  /\ Len(processing) = 2
  /\ ping_waiting = <<>>

\* C4: a statistics record changes in exactly the poll pass that finds its
\* probe exited, which also takes it out of flight, and in no other step;
\* and every poll pass is followed by the loop going on, whatever the probes
\* it reaped did.
C4_WrittenOnceWhenExited ==
  [][ /\ \A i \in DOMAIN ping_statistic \cap DOMAIN ping_statistic' :
           LET found == /\ PollStep
                        /\ \E k \in DOMAIN processing :
                             processing[k].peer_statistic = i /\ ExitedAt(k)
           IN /\ found => /\ ping_statistic'[i] # ping_statistic[i]
                          /\ i \notin InFlight'
              /\ ~found => ping_statistic'[i] = ping_statistic[i]
      /\ PollStep => pc' = "loop" ]_vars

\* C5: with parallel >= 1 and every launched probe exiting in the end,
\* ping_peers returns.
C5_EventuallyReturns ==
  (pc = "call" /\ peers # <<>> /\ settings.parallel >= 1)
    ~> (pc \in {"returned", "done"})

\* C6: a poll pass that polls a probe exited with a nonzero status s sets
\* that record's error to s, which is not 0, leaves packet_loss at -1 and
\* the rtt fields at 0, and leaves the probe out of the list it builds, which
\* is processing when the pass ends; and best_peers never selects a
\* candidate whose probe exited with a nonzero status.
C6_NonzeroExitRecorded ==
  [][ /\ PollStep =>
           \A k \in DOMAIN processing :
             LET p == processing[k]
                 s == procs[p.process].returncode
                 after == ping_statistic'[p.peer_statistic]
             IN (ExitedAt(k) /\ s # 0 /\ Reached(k)) =>
                  /\ after.error = s
                  /\ after.error # 0
                  /\ after.packet_loss = -1
                  /\ after.rtt_min = 0 /\ after.rtt_avg = 0
                  /\ after.rtt_max = 0 /\ after.rtt_mdev = 0
                  /\ p \notin Range(processing_working')
                  /\ pc' = "loop" => p \notin Range(processing')
      /\ pc' = "done" =>
           \A a \in 1..Len(procs') :
             (procs'[a].exited /\ procs'[a].returncode # 0) =>
               peers'[procs'[a].target] \notin Range(result') ]_vars

\* The third candidate's probe exited with status 2 and the other two were
\* selected, with room left for a third.
C6_Witness ==
  /\ pc = "done"
  /\ Len(peers) = 3
  /\ procs[1].returncode = 2
  /\ ping_statistic[3].error = 2
  /\ selection.best = 3
  /\ Len(result) = 2

\* The shape the claims call well formed: a number is digits with at most
\* one "." inside them, the summary line is the literal, four such numbers
\* with "/" between them, and "ms"; the loss fragment is an integer 0..100
\* right before "% packet loss".
IsDecimal(g) ==
  /\ g # <<>>
  /\ g[1] \in Digits /\ g[Len(g)] \in Digits
  /\ DotCount(g) <= 1

DecimalEnd(s, i) ==
  With(RunEnd(s, i, NumChars), LAMBDA e :
    IF e >= i /\ IsDecimal(SubSeq(s, i, e)) THEN e ELSE 0)

SummaryAt(s, i) ==
  HasAt(s, i, RttLiteral) /\
  With(DecimalEnd(s, i + 1), LAMBDA e1 : e1 # 0 /\ HasAt(s, e1 + 1, "/") /\
  With(DecimalEnd(s, e1 + 2), LAMBDA e2 : e2 # 0 /\ HasAt(s, e2 + 1, "/") /\
  With(DecimalEnd(s, e2 + 2), LAMBDA e3 : e3 # 0 /\ HasAt(s, e3 + 1, "/") /\
  With(DecimalEnd(s, e3 + 2), LAMBDA e4 : e4 # 0 /\
    HasAt(s, RunEnd(s, e4 + 1, Spaces) + 1, MsLiteral) ))))

LossAt(s, i) ==
  /\ HasAt(s, i, LossLiteral)
  /\ \E j \in 1..(i - 1) :
       /\ \A k \in j..(i - 1) : s[k] \in Digits
       /\ j = 1 \/ s[j - 1] \notin Digits
       /\ IntOf(SubSeq(s, j, i - 1)) <= 100

WellFormedOutput(s) ==
  /\ \E i \in 1..Len(s) : SummaryAt(s, i)
  /\ \E i \in 1..Len(s) : LossAt(s, i)

\* The one probe of a parser run has been polled.
Polled ==
  \/ pc = "raised"
  \/ (procs # <<>> /\ procs[1].exited /\ processing = <<>>)

\* C7: an output whose summary line or loss fragment is absent or malformed
\* leaves error at a nonzero sentinel, the rtt fields at 0 and packet_loss at
\* -1, and parse_ping_output raises nothing.
C7_MalformedFailsCleanly ==
  (Polled /\ ~WellFormedOutput(procs[1].stdout)) =>
    /\ pc # "raised"
    /\ ping_statistic[1].error # 0
    /\ ping_statistic[1].rtt_min = 0 /\ ping_statistic[1].rtt_avg = 0
    /\ ping_statistic[1].rtt_max = 0 /\ ping_statistic[1].rtt_mdev = 0
    /\ ping_statistic[1].packet_loss = -1

\* C8: every candidate best_peers returns has a statistics record with
\* error = 0, and when every record has error # 0 it returns the empty list.
C8_OnlySuccessesSelected ==
  pc = "done" =>
    /\ \A k \in DOMAIN result : \E i \in DOMAIN ping_statistic :
         ping_statistic[i].peer = result[k] /\ ping_statistic[i].error = 0
    /\ (\A i \in DOMAIN ping_statistic : ping_statistic[i].error # 0)
         => result = <<>>

\* Three were asked for without a cap; a failed probe and an unparsable
\* output leave one to select.
C8_Witness ==
  /\ pc = "done"
  /\ Len(ping_statistic) = 3
  /\ selection.best = 3 /\ selection.max_from_country = 0
  /\ ping_statistic[1].error = 2
  /\ ping_statistic[2].error = -1
  /\ ping_statistic[3].error = 0
  /\ Len(result) = 1

\* C9: best_peers called with best = 0 returns the empty list, whatever
\* max_from_country is.
C9_ZeroBestEmpty ==
  (pc = "done" /\ selection.best = 0) => result = <<>>

\* C10: with max_from_country > 0 (and best >= 0), no country appears more
\* than max_from_country times in what best_peers returns.
C10_CountryCap ==
  (pc = "done" /\ selection.max_from_country > 0) =>
    \A c \in Countries :
      Cardinality({ k \in DOMAIN result : result[k].country = c })
        <= selection.max_from_country

\* Three successes, two of them from country A, a cap of 1 and room for
\* three: one candidate of A is passed over.
C10_Witness ==
  /\ pc = "done"
  /\ selection.max_from_country = 1 /\ selection.best = 3
  /\ Len(ping_statistic) = 3
  /\ \A i \in 1..3 : ping_statistic[i].error = 0
  /\ ping_statistic[1].peer.country = "A"
  /\ ping_statistic[2].peer.country = "A"
  /\ ping_statistic[3].peer.country = "B"
  /\ Len(result) = 2

\* The successes of ping_statistic in ascending rtt_avg order, equal averages
\* in list order.
SortedSuccesses ==
  SortStable(SelectSeq(ping_statistic, LAMBDA ps : ps.error = 0))

\* How many of the records taken are from country c.
TakenFrom(taken, c) ==
  Cardinality({ j \in DOMAIN taken : taken[j].peer.country = c })

\* The greedy walk as the claims give it: go on while fewer than N are taken
\* and the list is not exhausted; pass over a candidate whose country has C
\* taken already.
RECURSIVE GreedyWalk(_, _, _, _, _)
GreedyWalk(sp, k, sofar, N, C) ==
  With(sofar, LAMBDA taken :
  IF k > Len(sp) \/ Len(taken) >= N THEN taken
  ELSE IF TakenFrom(taken, sp[k].peer.country) >= C
    THEN GreedyWalk(sp, k + 1, taken, N, C)
  ELSE GreedyWalk(sp, k + 1, Append(taken, sp[k]), N, C) )

PeersOf(stats) == [k \in DOMAIN stats |-> stats[k].peer]

\* C11: with max_from_country = C > 0 and best = N >= 0, best_peers returns
\* the greedy walk over the successes sorted ascending by rtt_avg (a
\* candidate whose country has C selections is passed over, the walk stops
\* at N selections), its size is min(N, successes the cap does not pass
\* over), and averages 50, 10, 30 from countries A, A, B with N = 2, C = 1
\* give the second candidate, then the third.
C11_GreedyWalk ==
  (pc = "done" /\ selection.max_from_country > 0 /\ selection.best >= 0) =>
    With(SortedSuccesses, LAMBDA sp :
      /\ result = PeersOf(GreedyWalk(sp, 1, <<>>, selection.best,
                                     selection.max_from_country))
      /\ Len(result) =
           Min(selection.best,
               Len(GreedyWalk(sp, 1, <<>>, Len(sp), selection.max_from_country)))
      /\ ( /\ Len(ping_statistic) = 3
           /\ \A i \in 1..3 : ping_statistic[i].error = 0
           /\ [i \in 1..3 |-> ping_statistic[i].rtt_avg] = <<5000, 1000, 3000>>
           /\ [i \in 1..3 |-> ping_statistic[i].peer.country] = <<"A", "A", "B">>
           /\ selection.best = 2 /\ selection.max_from_country = 1 )
         => result = << ping_statistic[2].peer, ping_statistic[3].peer >> )

\* The statistics record of a candidate (candidate i has address i).
StatOf(p) == ping_statistic[p.address]

SuccessRecords == { i \in DOMAIN ping_statistic : ping_statistic[i].error = 0 }

\* C12: with max_from_country <= 0 and best = N >= 0, best_peers returns
\* min(N, number of successes) candidates, all of them successes, none twice,
\* in ascending rtt_avg order, and no success left out has a smaller rtt_avg
\* than one returned; with N the number of successes it returns every
\* success.
C12_TopN ==
  (pc = "done" /\ selection.max_from_country <= 0 /\ selection.best >= 0) =>
    /\ Len(result) = Min(selection.best, Cardinality(SuccessRecords))
    /\ \A k \in DOMAIN result :
         result[k].address \in SuccessRecords /\ StatOf(result[k]).peer = result[k]
    /\ \A j, k \in DOMAIN result :
         j < k => /\ result[j] # result[k]
                  /\ StatOf(result[j]).rtt_avg <= StatOf(result[k]).rtt_avg
    /\ \A i \in SuccessRecords :
         ping_statistic[i].peer \notin Range(result) =>
           \A k \in DOMAIN result :
             StatOf(result[k]).rtt_avg <= ping_statistic[i].rtt_avg
    /\ selection.best = Cardinality(SuccessRecords) =>
         Range(result) = { ping_statistic[i].peer : i \in SuccessRecords }

\* Three successes listed slowest first and no cap: the two fastest are
\* returned, fastest first.
C12_Witness ==
  /\ pc = "done"
  /\ selection.max_from_country = 0 /\ selection.best = 2
  /\ Len(ping_statistic) = 3
  /\ [i \in 1..3 |-> ping_statistic[i].error] = <<0, 0, 0>>
  /\ [i \in 1..3 |-> ping_statistic[i].rtt_avg] = <<5000, 3000, 1000>>
  /\ result = << ping_statistic[3].peer, ping_statistic[2].peer >>

Perms(n) ==
  { f \in [1..n -> 1..n] : \A i, j \in 1..n : f[i] = f[j] => i = j }

SuccessesOf(xs) == SelectSeq(xs, LAMBDA ps : ps.error = 0)

\* The lists that hold the records of xs with the successes in the same
\* relative order: xs with its failed entries moved.
Reorderings(xs) ==
  { ys \in { [i \in 1..Len(xs) |-> xs[f[i]]] : f \in Perms(Len(xs)) } :
      SuccessesOf(ys) = SuccessesOf(xs) }

\* C13: best_peers gives the same list, for the same best and
\* max_from_country, on every input that holds the same records with only
\* the failed entries at other positions.
C13_FailedOrderIrrelevant ==
  pc = "done" =>
    \A ys \in Reorderings(ping_statistic) :
      best_peers(ys, selection.best, selection.max_from_country) = result

\* Two different failures with a success between them, which is selected:
\* the input has other orderings of its failed entries.
C13_Witness ==
  /\ pc = "done"
  /\ Len(ping_statistic) = 3
  /\ [i \in 1..3 |-> ping_statistic[i].error] = <<2, 0, -1>>
  /\ selection.best = 2
  /\ result = << ping_statistic[2].peer >>
  /\ Cardinality(Reorderings(ping_statistic)) = 6

\* The position of a candidate in the list given to find_best_public_peers.
CandidateIndex(p) == CHOOSE i \in DOMAIN peers : peers[i] = p

\* C14: in what find_best_public_peers returns, two candidates with equal
\* rtt_avg stand in the order they have in the candidate list, in whatever
\* order their probes were started and reaped.
C14_TiesInCandidateOrder ==
  pc = "done" =>
    \A j, k \in DOMAIN result :
      (j < k /\ StatOf(result[j]).rtt_avg = StatOf(result[k]).rtt_avg) =>
        CandidateIndex(result[j]) < CandidateIndex(result[k])

\* Three candidates, the third probed first; the first and the third end
\* with the same average, the second with a smaller one, and all three are
\* returned.
C14_Witness ==
  /\ pc = "done"
  /\ Len(peers) = 3
  /\ procs[1].target = 3
  /\ ping_statistic[1].rtt_avg = ping_statistic[3].rtt_avg
  /\ ping_statistic[2].rtt_avg < ping_statistic[1].rtt_avg
  /\ result = << peers[2], peers[1], peers[3] >>

\* The candidates whose record holds an outcome: a failure code, or the
\* packet loss that ends a successful parse.
Terminal(stats) ==
  { i \in DOMAIN stats : stats[i].error # 0 \/ stats[i].packet_loss >= 0 }

\* C18: the count of the progress bar never decreases; when the bar is on
\* it equals the number of candidates that have reached an outcome, so it
\* goes up by one for each of them; it equals the total, the number of
\* candidates, when ping_peers returns; and whether and which probe a step
\* starts follows from the waiting list, the active list and parallel alone,
\* bar or no bar.
C18_CompletedCount ==
  [][ /\ pbar'.n >= pbar.n
      /\ pbar'.active =>
           /\ pbar'.n = Cardinality(Terminal(ping_statistic'))
           /\ pbar'.total = Len(peers')
      /\ (pc' = "returned" /\ pbar'.active) => pbar'.n = Len(peers')
      /\ Len(procs') > Len(procs) <=>
           /\ pc = "loop" /\ pc' = "poll"
           /\ Len(processing) < settings.parallel
           /\ ping_waiting # <<>>
      /\ Len(procs') > Len(procs) =>
           /\ Len(procs') = Len(procs) + 1
           /\ procs'[Len(procs')].target = ping_waiting[Len(ping_waiting)] ]_vars

\* Two of three candidates have an outcome, one a failed probe, and the
\* third is still being probed: the bar stands at 2 of 3.
C18_Witness ==
  /\ pc = "loop"
  /\ pbar.active /\ pbar.n = 2 /\ pbar.total = 3
  /\ Len(processing) = 1
  /\ \E i \in 1..3 : ping_statistic[i].error \in FailStatuses

\* C19: right after the launch step of an iteration, processing holds
\* parallel probes or ping_waiting is empty.
C19_FullAfterLaunch ==
  pc = "poll" =>
    (Len(processing) = settings.parallel \/ ping_waiting = <<>>)

\* C20: probes are started in candidate-list order: when the probe of
\* candidate j has been started, so has, before it, the probe of every
\* candidate i < j.
C20_LaunchedInListOrder ==
  \A b \in DOMAIN procs :
    \A i \in 1..(procs[b].target - 1) :
      \E a \in 1..(b - 1) : procs[a].target = i

\* C20 as amended: probes are started in reverse candidate-list order: when
\* the probe of candidate i has been started, so has, before it, the probe
\* of every candidate j > i.
C20_LaunchedInReverseOrder ==
  \A b \in DOMAIN procs :
    \A j \in (procs[b].target + 1)..Len(peers) :
      \E a \in 1..(b - 1) : procs[a].target = j

\* Three candidates, one probe at a time: the third was probed first, the
\* first last.
C20_Witness ==
  /\ Len(peers) = 3
  /\ settings.parallel = 1
  /\ [b \in DOMAIN procs |-> procs[b].target] = <<3, 2, 1>>

\* The four numbers of the first well-formed summary line of s, as written.
SummaryNumbers(s) ==
  LET i == CHOOSE i \in 1..Len(s) :
             SummaryAt(s, i) /\ \A h \in 1..(i - 1) : ~SummaryAt(s, h)
      e1 == DecimalEnd(s, i + 1)
      e2 == DecimalEnd(s, e1 + 2)
      e3 == DecimalEnd(s, e2 + 2)
      e4 == DecimalEnd(s, e3 + 2)
  IN << SubSeq(s, i + 1, e1), SubSeq(s, e1 + 2, e2),
        SubSeq(s, e2 + 2, e3), SubSeq(s, e3 + 2, e4) >>

\* The integer of the first well-formed loss fragment of s, as written.
LossNumber(s) ==
  LET i == CHOOSE i \in 1..Len(s) :
             LossAt(s, i) /\ \A h \in 1..(i - 1) : ~LossAt(s, h)
      j == CHOOSE j \in 1..(i - 1) :
             /\ \A k \in j..(i - 1) : s[k] \in Digits
             /\ j = 1 \/ s[j - 1] \notin Digits
  IN SubSeq(s, j, i - 1)

\* C17: for an output that holds the summary line with four non-negative
\* decimal numbers A, B, C, D and a loss fragment with an integer 0..100,
\* whatever stands around them, parse_ping_output raises nothing, leaves
\* error at 0, and sets rtt_min, rtt_avg, rtt_max, rtt_mdev to A, B, C, D and
\* packet_loss to the integer.
C17_ParserRecoversValues ==
  (Polled /\ WellFormedOutput(procs[1].stdout)) =>
    With(SummaryNumbers(procs[1].stdout), LAMBDA nums :
      /\ pc # "raised"
      /\ ping_statistic[1].error = 0
      /\ ping_statistic[1].rtt_min = FloatOf(nums[1])
      /\ ping_statistic[1].rtt_avg = FloatOf(nums[2])
      /\ ping_statistic[1].rtt_max = FloatOf(nums[3])
      /\ ping_statistic[1].rtt_mdev = FloatOf(nums[4])
      /\ ping_statistic[1].packet_loss = IntOf(LossNumber(procs[1].stdout)) )

\* C16: when the probe command cannot be started for any candidate,
\* ping_peers does not return normally with a failure record per candidate;
\* the caller gets an error for the batch.
C16_LaunchFailureSurfaced ==
  ~ ( /\ pc = "returned"
      /\ procs # <<>>
      /\ \A a \in DOMAIN procs :
           procs[a].exited /\ procs[a].returncode = CommandNotFound )

\* A selection or scheduling parameter is out of range.
OutOfRange ==
  settings.best_count < 0 \/ settings.parallel < 1 \/ settings.pings < 1

\* C15: with best_count < 0, parallel < 1 or pings < 1 the run is rejected
\* before any probe process is started.
C15_RejectedBeforeProbing ==
  OutOfRange => procs = <<>>

\* The run names a configuration file that lists a peer, and neither force
\* nor rewrite_config_peers is set.
KeepsListedPeers ==
  /\ settings.yggdrasil_conf # ""
  /\ conf_file.Peers # <<>>
  /\ ~settings.force /\ ~settings.rewrite_config_peers

\* The next state is no further than the test of lines 570-573: nothing has
\* been fetched and no probe started.
StopsBeforeFetching ==
  /\ pc' \in {"validated", "exit0", "exit1"}
  /\ peers' = <<>> /\ procs' = <<>>

\* What main does with an empty selection and with the file: an empty
\* selection ends in sys.exit(1) and never reaches save_to_yggdrasil_conf;
\* the file changes only in save_to_yggdrasil_conf, to the non-empty
\* selection, and only when force or rewrite_config_peers is set or it
\* listed no peer.
SavesOnlyWantedPeers ==
  /\ (pc = "done" /\ result = <<>>) => pc' = "exit1"
  /\ pc' = "save" => result' # <<>>
  /\ conf_file' # conf_file =>
       /\ pc = "save"
       /\ result # <<>> /\ conf_file'.Peers = result
       /\ settings.force \/ settings.rewrite_config_peers \/ conf_file.Peers = <<>>

\* C21: when the configuration file lists at least one peer and neither
\* force nor rewrite_config_peers is set, main exits before it fetches or
\* probes anything; when the selection is empty it exits with a failure
\* status without calling save_to_yggdrasil_conf; and the file is never
\* rewritten with an empty or unwanted list.
C21_ConfigNeverSpoiled ==
  [][ /\ KeepsListedPeers => StopsBeforeFetching
      /\ SavesOnlyWantedPeers ]_vars

\* C21 as amended: the same, for a configuration file that main can read and
\* parse.
C21_ReadableConfigNeverSpoiled ==
  [][ /\ (KeepsListedPeers /\ conf_file.readable) => StopsBeforeFetching
      /\ SavesOnlyWantedPeers ]_vars

\* The file lists a peer and force is set: the run probed one candidate,
\* selected none and ended with sys.exit(1), the file as it was.
C21_Witness ==
  /\ pc = "exit1"
  /\ settings.force /\ settings.yggdrasil_conf # ""
  /\ conf_file.readable /\ conf_file.writable /\ conf_file.Peers = OldPeers
  /\ procs # <<>>
  /\ result = <<>>

====
